---- MODULE Spec2Model ----
(***************************************************************************)
(* Coverage tracker (package fuzzer, type Cover) and corpus scheduler      *)
(* (package corpus, type ProgramsList) of the fuzzing core.                *)
(*                                                                         *)
(* Coverage events are 64-bit kernel text addresses.  Every address the    *)
(* code compares against lies above 0xffffffff80000000, so an address is   *)
(* written here as its offset from that base; the offset keeps the order   *)
(* of the unsigned comparisons of the source.                              *)
(***************************************************************************)
EXTENDS Integers, Sequences, FiniteSets, TLC

\* ------------------------------------------------------------------------
\* Program constants (offsets from 0xffffffff80000000)
\* ------------------------------------------------------------------------
FsLo == 33020688
FsHi == 33242729
IoLo == 28968685
IoHi == 29169206
FsALo == 52142230
FsAHi == 59698910
FsBLo == 95905720
FsBHi == 95938769
BiasRange == 100
BiasCut == 50

\* ------------------------------------------------------------------------
\* Bounds of the model
\* ------------------------------------------------------------------------
MaxPrio == 1
MaxOps == 4
MaxProgs == 2
MaxOther == 1
MaxProtected == 2
NumWorkers == 2
MaxCalls == 2
MaxDrains == 2
MaxListCalls == 3
MaxSnapOps == 5
MaxCmds == 3
MaxCPU == 2

\* Sample addresses: the two ends of the tracker's scope and the addresses
\* just outside them.
CoverEvents == {FsLo - 1, FsLo, FsHi, FsHi + 1}
Prios == 0..MaxPrio

\* Raw traces handed to addRawMaxSignal: empty, out of scope, in scope,
\* mixed, and with an event repeated.
Traces ==
  {<<>>, <<FsLo - 1>>, <<FsHi + 1>>, <<FsLo>>, <<FsHi>>, <<FsLo, FsHi>>, <<FsLo - 1, FsHi, FsHi>>}

\* ------------------------------------------------------------------------
\* signal.Signal: a map from event to priority
\* ------------------------------------------------------------------------
EmptySignal == [e \in {} |-> 0]

\* Signals handed to AddMaxSignal: empty, in scope, mixed, at one priority
\* each, and one with two priorities.
Signals ==
  {[e \in D |-> p] : D \in {{}, {FsLo}, {FsLo - 1, FsHi}, CoverEvents}, p \in Prios}
    \cup {[e \in {FsLo, FsHi} |-> IF e = FsLo THEN 0 ELSE MaxPrio]}

Empty(s) == DOMAIN s = {}

Copy(s) == [e \in DOMAIN s |-> s[e]]

Merge(s, s1) ==
  [e \in DOMAIN s \cup DOMAIN s1 |->
     IF e \notin DOMAIN s THEN s1[e]
     ELSE IF e \in DOMAIN s1 /\ s[e] < s1[e] THEN s1[e]
     ELSE s[e]]

DiffRaw(s, raw, prio) ==
  [e \in {raw[i] : i \in DOMAIN raw} \ {x \in DOMAIN s : s[x] >= prio} |-> prio]

\* ------------------------------------------------------------------------
\* Cover
\* ------------------------------------------------------------------------
filterFsSignal_Keep(signal) == signal

RECURSIVE filterFsSignal(_)
filterFsSignal(signal) ==
  IF signal = <<>> THEN <<>>
  ELSE LET cover == Head(signal)
           rest == filterFsSignal(Tail(signal))
       IN IF cover >= FsLo /\ cover <= FsHi THEN <<cover>> \o rest ELSE rest

\* filterFsSignal of the other revision of the tracker: two ranges.
RECURSIVE filterFsSignalTwoRanges(_)
filterFsSignalTwoRanges(signal) ==
  IF signal = <<>> THEN <<>>
  ELSE LET cover == Head(signal)
           rest == filterFsSignalTwoRanges(Tail(signal))
       IN IF (FsALo <= cover /\ cover <= FsAHi) \/ (FsBLo <= cover /\ cover <= FsBHi)
          THEN <<cover>> \o rest ELSE rest

\* The bodies of the methods, as functions of the two fields: the result
\* holds the fields after the call and the value returned.
AddMaxSignal_Overwrite(ms, ns, sign) ==
  [maxSignal |-> sign, newSignal |-> ns, ret |-> EmptySignal]

AddMaxSignal_Pending(ms, ns, sign) ==
  [maxSignal |-> Merge(ms, sign), newSignal |-> Merge(ns, sign), ret |-> EmptySignal]

AddMaxSignal(ms, ns, sign) ==
  [maxSignal |-> Merge(ms, sign), newSignal |-> ns, ret |-> EmptySignal]

addRawMaxSignal_Overwrite(ms, ns, signal, prio) ==
  LET fs_signal == filterFsSignal(signal)
      diff == DiffRaw(ms, fs_signal, prio)
  IN IF Empty(diff)
     THEN [maxSignal |-> ms, newSignal |-> ns, ret |-> diff]
     ELSE [maxSignal |-> Merge(ms, diff), newSignal |-> diff, ret |-> diff]

addRawMaxSignal_NoKnown(ms, ns, signal, prio) ==
  LET fs_signal == filterFsSignal(signal)
      diff == DiffRaw(ms, fs_signal, prio)
  IN IF Empty(diff)
     THEN [maxSignal |-> ms, newSignal |-> ns, ret |-> diff]
     ELSE [maxSignal |-> ms, newSignal |-> Merge(ns, diff), ret |-> diff]

addRawMaxSignal_ResetOnEmpty(ms, ns, signal, prio) ==
  LET fs_signal == filterFsSignal(signal)
      diff == DiffRaw(ms, fs_signal, prio)
  IN IF Empty(diff)
     THEN [maxSignal |-> ms, newSignal |-> EmptySignal, ret |-> diff]
     ELSE [maxSignal |-> Merge(ms, diff), newSignal |-> Merge(ns, diff), ret |-> diff]

addRawMaxSignal(ms, ns, signal, prio) ==
  LET fs_signal == filterFsSignal(signal)
      diff == DiffRaw(ms, fs_signal, prio)
  IN IF Empty(diff)
     THEN [maxSignal |-> ms, newSignal |-> ns, ret |-> diff]
     ELSE [maxSignal |-> Merge(ms, diff), newSignal |-> Merge(ns, diff), ret |-> diff]

CopyMaxSignal(ms, ns) ==
  [maxSignal |-> ms, newSignal |-> ns, ret |-> Copy(ms)]

GrabSignalDelta_Keep(ms, ns) ==
  LET plus == ns
  IN [maxSignal |-> ms, newSignal |-> ns, ret |-> plus]

GrabSignalDelta(ms, ns) ==
  LET plus == ns
  IN [maxSignal |-> ms, newSignal |-> EmptySignal, ret |-> plus]

\* ------------------------------------------------------------------------
\* ProgramsList
\* ------------------------------------------------------------------------
\* Programs are opaque references.
Progs == {"P1", "P2"}
nil == "nil"
panic == "panic"

\* Sample addresses around both ends of the io_uring range, and two more
\* addresses outside it.
CorpusEvents == {IoLo - 1, IoLo, IoHi, IoHi + 1, FsLo, FsHi}

\* Signals handed to saveProgram: it reads their keys only.
SaveSignals ==
  {[e \in D |-> 0] : D \in {{}, {IoLo}, {IoHi}, {IoLo - 1}, {IoHi + 1}, {IoLo - 1, IoHi},
                            {IoLo - 1, IoHi + 1, FsLo}, {IoLo - 1, IoHi + 1, FsLo, FsHi}}}

EmptyList == [progs |-> <<>>, ioUringProgs |-> <<>>, sumPrios |-> 0, accPrios |-> <<>>]

io_uring_flag(signal) ==
  \E cover \in DOMAIN signal : cover >= IoLo /\ cover <= IoHi

progPrio_NoFloor(signal) == Cardinality(DOMAIN signal)

progPrio_Boost(signal) ==
  LET prio == Cardinality(DOMAIN signal)
      floored == IF prio = 0 THEN 1 ELSE prio
  IN IF io_uring_flag(signal) THEN floored * 100000 ELSE floored

progPrio(signal) ==
  LET prio == Cardinality(DOMAIN signal)
  IN IF prio = 0 THEN 1 ELSE prio

saveProgram_NoProtect(pl, p, signal) ==
  LET sum == pl.sumPrios + progPrio(signal)
  IN [progs |-> Append(pl.progs, p),
      ioUringProgs |-> pl.ioUringProgs,
      sumPrios |-> sum,
      accPrios |-> Append(pl.accPrios, sum)]

saveProgram(pl, p, signal) ==
  LET sum == pl.sumPrios + progPrio(signal)
  IN [progs |-> Append(pl.progs, p),
      ioUringProgs |-> IF io_uring_flag(signal) THEN Append(pl.ioUringProgs, p)
                       ELSE pl.ioUringProgs,
      sumPrios |-> sum,
      accPrios |-> Append(pl.accPrios, sum)]

replace(pl, other) ==
  [progs |-> other.progs,
   ioUringProgs |-> pl.ioUringProgs,
   sumPrios |-> other.sumPrios,
   accPrios |-> other.accPrios]

\* sort.Search(n, f) with f(i) = accPrios[i] >= randVal, indices from 0.
RECURSIVE sortSearch(_, _, _, _)
sortSearch(accPrios, randVal, i, j) ==
  IF i < j
  THEN LET h == (i + j) \div 2
       IN IF ~(accPrios[h + 1] >= randVal)
          THEN sortSearch(accPrios, randVal, h + 1, j)
          ELSE sortSearch(accPrios, randVal, i, h)
  ELSE i

\* Element idx of a slice, indices from 0; an index out of range panics.
At(slice, idx) == IF idx >= 0 /\ idx < Len(slice) THEN slice[idx + 1] ELSE panic

\* randVal is the value of r.Int63n(sumPrios+1), bias the value of
\* rand.Intn(100) and pick the value of rand.Intn(len(ioUringProgs)).
ChooseProgram_AlwaysProtected(pl, randVal, bias, pick) ==
  IF Len(pl.progs) = 0 THEN [ret |-> nil, idx |-> -1, path |-> "empty"]
  ELSE LET idx == sortSearch(pl.accPrios, randVal, 0, Len(pl.accPrios))
       IN IF bias < BiasRange
          THEN IF Len(pl.ioUringProgs) = 0
               THEN [ret |-> At(pl.progs, idx), idx |-> idx, path |-> "weighted"]
               ELSE [ret |-> At(pl.ioUringProgs, pick), idx |-> idx, path |-> "protected"]
          ELSE [ret |-> At(pl.progs, idx), idx |-> idx, path |-> "weighted"]

ChooseProgram_DrawPastSum(pl, randVal, bias, pick) ==
  IF Len(pl.progs) = 0 THEN [ret |-> nil, idx |-> -1, path |-> "empty"]
  ELSE LET idx == sortSearch(pl.accPrios, randVal + 1, 0, Len(pl.accPrios))
       IN IF bias < BiasCut
          THEN IF Len(pl.ioUringProgs) = 0
               THEN [ret |-> At(pl.progs, idx), idx |-> idx, path |-> "weighted"]
               ELSE [ret |-> At(pl.ioUringProgs, pick), idx |-> idx, path |-> "protected"]
          ELSE [ret |-> At(pl.progs, idx), idx |-> idx, path |-> "weighted"]

ChooseProgram(pl, randVal, bias, pick) ==
  IF Len(pl.progs) = 0 THEN [ret |-> nil, idx |-> -1, path |-> "empty"]
  ELSE LET idx == sortSearch(pl.accPrios, randVal, 0, Len(pl.accPrios))
       IN IF bias < BiasCut
          THEN IF Len(pl.ioUringProgs) = 0
               THEN [ret |-> At(pl.progs, idx), idx |-> idx, path |-> "weighted"]
               ELSE [ret |-> At(pl.ioUringProgs, pick), idx |-> idx, path |-> "protected"]
          ELSE [ret |-> At(pl.progs, idx), idx |-> idx, path |-> "weighted"]

\* The lists a caller of replace can hold: built by saveProgram on a fresh
\* list, from signals of size 0, 1 (in the io_uring range) and 3 (outside it).
ReplaceSignals == {[e \in D |-> 0] : D \in {{}, {IoLo}, {IoLo - 1, IoHi + 1, FsLo}}}

RECURSIVE Built(_)
Built(n) ==
  IF n = 0 THEN {EmptyList}
  ELSE Built(n - 1) \cup
       {saveProgram(pl, p, signal) : pl \in Built(n - 1), p \in Progs, signal \in ReplaceSignals}

\* The values the bias draw is sampled at: both ends of its range and both
\* sides of the cut.
BiasDraws == {0, BiasCut - 1, BiasCut, BiasRange - 1}

VARIABLES
  maxSignal,   \* Cover.maxSignal
  newSignal,   \* Cover.newSignal
  last,        \* the last call: its name, arguments and returned signal
  nOps,        \* number of calls made
  since,       \* history: merge of the deltas addRawMaxSignal returned since the previous GrabSignalDelta
  reports,     \* history: per event, number of addRawMaxSignal calls that returned it
  deliveries,  \* history: per event, number of GrabSignalDelta calls that returned it
  shield,      \* history: events merged by AddMaxSignal while not pending and not reported since, with the merged priority
  merged,      \* history: events ever passed to AddMaxSignal
  twice,       \* history: whether the last call repeats the call before it, and that call's delta
  progs,        \* ProgramsList.progs
  ioUringProgs, \* ProgramsList.ioUringProgs
  sumPrios,     \* ProgramsList.sumPrios
  accPrios,     \* ProgramsList.accPrios
  plast,        \* the last call on the list: its name, arguments and result
  mu,           \* Cover.mu: the set of goroutines holding the write lock
  pc,           \* per goroutine, the statement it is at
  local,        \* per goroutine, its arguments and local variables
  calls,        \* history: one record for each addRawMaxSignal call that returned, in order of return
  drainLog,     \* history: the signals returned by the GrabSignalDelta calls, in order
  dStarted,     \* history: number of GrabSignalDelta calls started
  dReturned,    \* history: number of GrabSignalDelta calls returned
  lmu,          \* ProgramsList.mu: the goroutine holding the write lock and those holding the read lock
  lpc,          \* per goroutine calling into the ProgramsList, the statement it is at
  lloc,         \* per goroutine, its arguments and what it has read so far
  lcalls,       \* number of calls on the ProgramsList started by the goroutines
  heap,         \* the backing arrays allocated for progs slices, each as long as its capacity
  progsSlice,   \* ProgramsList.progs as a slice: its backing array and its length
  snapshot,     \* the slice the last Programs call returned, and its elements when it returned
  passed,       \* the lists the caller has built and passed to replace
  reused,       \* history: whether a list was passed to replace a second time
  nSnapOps,     \* number of calls made on the list and its slices
  cmds,         \* declextract main: the compilation database, as the sequence of its File names
  ncpu,         \* declextract main: runtime.NumCPU(), the number of workers started
  files,        \* the files channel: the names buffered in it
  outputs,      \* the outputs channel: the number of outputs buffered in it
  closed,       \* whether the files channel is closed
  sent,         \* main: number of names sent to files
  received,     \* main: number of outputs received
  mpc,          \* main: the statement it is at
  wpc,          \* per worker, the statement it is at
  wfile         \* per worker, the file it took from the channel

concVars == <<mu, pc, local, calls, drainLog, dStarted, dReturned>>
coverVars == <<maxSignal, newSignal, last, nOps, since, reports, deliveries, shield, merged, twice>>
listVars == <<lmu, lpc, lloc, lcalls>>
snapVars == <<heap, progsSlice, snapshot, passed, reused, nSnapOps>>
corpusVars == <<progs, ioUringProgs, sumPrios, accPrios, plast, listVars, snapVars>>
pipeVars == <<cmds, ncpu, files, outputs, closed, sent, received, mpc, wpc, wfile>>
vars == <<coverVars, corpusVars, concVars, pipeVars>>

InScope == {e \in CoverEvents : filterFsSignal(<<e>>) # <<>>}

NoCall == [op |-> "newCover", signal |-> <<>>, sign |-> EmptySignal, prio |-> 0, ret |-> EmptySignal]
NoTwice == [same |-> FALSE, first |-> EmptySignal]

newCover ==
  /\ maxSignal = EmptySignal
  /\ newSignal = EmptySignal
  /\ last = NoCall
  /\ nOps = 0
  /\ since = EmptySignal
  /\ reports = [e \in CoverEvents |-> 0]
  /\ deliveries = [e \in CoverEvents |-> 0]
  /\ shield = EmptySignal
  /\ merged = {}
  /\ twice = NoTwice

NoListCall == [op |-> "new", p |-> nil, signal |-> EmptySignal, ret |-> nil, idx |-> -1, path |-> "none"]

newProgramsList ==
  /\ progs = <<>>
  /\ ioUringProgs = <<>>
  /\ sumPrios = 0
  /\ accPrios = <<>>
  /\ plast = NoListCall

Free == {}
Drainer == 0
Workers == 1..NumWorkers
NoLocal == [signal |-> <<>>, prio |-> 0, diff |-> EmptySignal, startDone |-> 0, lin |-> 0]

goroutines ==
  /\ mu = Free
  /\ pc = [g \in {Drainer} \cup Workers |-> "idle"]
  /\ local = [g \in {Drainer} \cup Workers |-> NoLocal]
  /\ calls = <<>>
  /\ drainLog = <<>>
  /\ dStarted = 0
  /\ dReturned = 0

ListFree == [w |-> {}, r |-> {}]
NoListLocal ==
  [p |-> nil, signal |-> EmptySignal, other |-> EmptyList,
   len |-> -1, sum |-> -1, randVal |-> -1, acc |-> <<>>, idx |-> -1, plen |-> -1, ret |-> nil]

listGoroutines ==
  /\ lmu = ListFree
  /\ lpc = [g \in Workers |-> "idle"]
  /\ lloc = [g \in Workers |-> NoListLocal]
  /\ lcalls = 0

NilSlice == [arr |-> 0, len |-> 0]
NoSnapshot == [taken |-> FALSE, slice |-> NilSlice, elems |-> <<>>]

slices ==
  /\ heap = <<>>
  /\ progsSlice = NilSlice
  /\ snapshot = NoSnapshot
  /\ passed = <<>>
  /\ reused = FALSE
  /\ nSnapOps = 0

CPUs == 1..MaxCPU

\* declextract before main runs: no database read, no channel made, no
\* worker started.
declextract ==
  /\ cmds = <<>>
  /\ ncpu = 0
  /\ files = <<>>
  /\ outputs = 0
  /\ closed = FALSE
  /\ sent = 0
  /\ received = 0
  /\ mpc = "main"
  /\ wpc = [w \in CPUs |-> "none"]
  /\ wfile = [w \in CPUs |-> <<>>]

Init == newCover /\ newProgramsList /\ goroutines /\ listGoroutines /\ slices /\ declextract

Restrict(s, D) == [e \in DOMAIN s \cap D |-> s[e]]

MergeKnown(sign) ==
  LET r == AddMaxSignal(maxSignal, newSignal, sign)
  IN /\ nOps < MaxOps
     /\ maxSignal' = r.maxSignal
     /\ newSignal' = r.newSignal
     /\ last' = [op |-> "AddMaxSignal", signal |-> <<>>, sign |-> sign, prio |-> 0, ret |-> r.ret]
     /\ nOps' = nOps + 1
     /\ shield' = Merge(shield, Restrict(sign, DOMAIN sign \ DOMAIN newSignal))
     /\ merged' = merged \cup DOMAIN sign
     /\ twice' = NoTwice
     /\ UNCHANGED <<since, reports, deliveries>>
     /\ UNCHANGED <<corpusVars, concVars, pipeVars>>

IngestRaw(signal, prio) ==
  LET r == addRawMaxSignal(maxSignal, newSignal, signal, prio)
  IN /\ nOps < MaxOps
     /\ maxSignal' = r.maxSignal
     /\ newSignal' = r.newSignal
     /\ last' = [op |-> "addRawMaxSignal", signal |-> signal, sign |-> EmptySignal, prio |-> prio, ret |-> r.ret]
     /\ nOps' = nOps + 1
     /\ since' = Merge(since, r.ret)
     /\ reports' = [e \in CoverEvents |-> IF e \in DOMAIN r.ret THEN reports[e] + 1 ELSE reports[e]]
     /\ shield' = Restrict(shield, DOMAIN shield \ DOMAIN r.ret)
     /\ twice' = [same |-> last.op = "addRawMaxSignal" /\ last.signal = signal /\ last.prio = prio,
                  first |-> last.ret]
     /\ UNCHANGED <<deliveries, merged>>
     /\ UNCHANGED <<corpusVars, concVars, pipeVars>>

Snapshot ==
  LET r == CopyMaxSignal(maxSignal, newSignal)
  IN /\ nOps < MaxOps
     /\ maxSignal' = r.maxSignal
     /\ newSignal' = r.newSignal
     /\ last' = [op |-> "CopyMaxSignal", signal |-> <<>>, sign |-> EmptySignal, prio |-> 0, ret |-> r.ret]
     /\ nOps' = nOps + 1
     /\ twice' = NoTwice
     /\ UNCHANGED <<since, reports, deliveries, shield, merged>>
     /\ UNCHANGED <<corpusVars, concVars, pipeVars>>

DrainDelta ==
  LET r == GrabSignalDelta(maxSignal, newSignal)
  IN /\ nOps < MaxOps
     /\ maxSignal' = r.maxSignal
     /\ newSignal' = r.newSignal
     /\ last' = [op |-> "GrabSignalDelta", signal |-> <<>>, sign |-> EmptySignal, prio |-> 0, ret |-> r.ret]
     /\ nOps' = nOps + 1
     /\ since' = EmptySignal
     /\ deliveries' = [e \in CoverEvents |-> IF e \in DOMAIN r.ret THEN deliveries[e] + 1 ELSE deliveries[e]]
     /\ twice' = NoTwice
     /\ UNCHANGED <<reports, shield, merged>>
     /\ UNCHANGED <<corpusVars, concVars, pipeVars>>

Next ==
  \/ \E sign \in Signals : MergeKnown(sign)
  \/ \E signal \in Traces, prio \in Prios : IngestRaw(signal, prio)
  \/ Snapshot
  \/ DrainDelta

Spec == Init /\ [][Next]_vars

\* ------------------------------------------------------------------------
\* The calls on the ProgramsList
\* ------------------------------------------------------------------------
List == [progs |-> progs, ioUringProgs |-> ioUringProgs, sumPrios |-> sumPrios, accPrios |-> accPrios]

\* The values rand.Intn(len(ioUringProgs)) can take.
Picks == 0..(Len(ioUringProgs) - 1)

SetList(pl) ==
  /\ progs' = pl.progs
  /\ ioUringProgs' = pl.ioUringProgs
  /\ sumPrios' = pl.sumPrios
  /\ accPrios' = pl.accPrios

Admit(p, signal) ==
  /\ Len(progs) < MaxProgs
  /\ io_uring_flag(signal) => Len(ioUringProgs) < MaxProtected
  /\ SetList(saveProgram(List, p, signal))
  /\ plast' = [op |-> "saveProgram", p |-> p, signal |-> signal, ret |-> nil, idx |-> -1, path |-> "none"]
  /\ UNCHANGED <<pipeVars, coverVars, concVars, snapVars, listVars>>

Choose(randVal, bias, pick) ==
  LET r == ChooseProgram(List, randVal, bias, pick)
  IN /\ SetList(List)
     /\ plast' = [op |-> "ChooseProgram", p |-> nil, signal |-> EmptySignal,
                  ret |-> r.ret, idx |-> r.idx, path |-> r.path]
     /\ UNCHANGED <<pipeVars, coverVars, concVars, snapVars, listVars>>

ReplaceAll(other) ==
  /\ SetList(replace(List, other))
  /\ plast' = [op |-> "replace", p |-> nil, signal |-> EmptySignal, ret |-> nil, idx |-> -1, path |-> "none"]
  /\ UNCHANGED <<pipeVars, coverVars, concVars, snapVars, listVars>>

NextCorpus ==
  \/ \E p \in Progs, signal \in SaveSignals : Admit(p, signal)
  \/ \E randVal \in 0..sumPrios, bias \in BiasDraws,
        pick \in 0..(IF Len(ioUringProgs) = 0 THEN 0 ELSE Len(ioUringProgs) - 1) :
        Choose(randVal, bias, pick)
  \/ \E other \in Built(MaxOther) : ReplaceAll(other)

SpecCorpus == Init /\ [][NextCorpus]_vars

\* ------------------------------------------------------------------------
\* Goroutines calling into the Cover concurrently: workers call
\* addRawMaxSignal, one goroutine calls GrabSignalDelta.  A call is
\* entered, takes the lock and runs up to its first write of newSignal,
\* writes newSignal, and unlocks and returns, in separate steps.
\* ------------------------------------------------------------------------
ConcTraces == {<<FsLo>>, <<FsLo - 1, FsHi>>}
ConcPrios == {0, MaxPrio}

histVars == <<last, nOps, since, reports, deliveries, shield, merged, twice>>

CanLock_Always(m) == TRUE

\* sync.RWMutex.Lock returns once no other goroutine holds the lock.
CanLock(m) == m = Free

Goto(g, stmt) == pc' = [pc EXCEPT ![g] = stmt]

IngestCall(w, signal, prio) ==
  /\ pc[w] = "idle"
  /\ Cardinality({g \in Workers : pc[g] # "idle"}) + Len(calls) < MaxCalls
  /\ Goto(w, "Lock")
  /\ local' = [local EXCEPT ![w] = [NoLocal EXCEPT !.signal = signal, !.prio = prio,
                                                   !.startDone = dReturned]]
  /\ UNCHANGED <<maxSignal, newSignal, histVars, corpusVars, pipeVars, mu, calls, drainLog, dStarted, dReturned>>

IngestLock(w) ==
  /\ pc[w] = "Lock"
  /\ CanLock(mu)
  /\ mu' = {w}
  /\ LET fs_signal == filterFsSignal(local[w].signal)
         diff == DiffRaw(maxSignal, fs_signal, local[w].prio)
     IN /\ local' = [local EXCEPT ![w].signal = <<>>, ![w].diff = diff, ![w].lin = Len(drainLog)]
        /\ maxSignal' = (IF Empty(diff) THEN maxSignal ELSE Merge(maxSignal, diff))
        /\ Goto(w, IF Empty(diff) THEN "return" ELSE "MergeNew")
  /\ UNCHANGED <<newSignal, histVars, corpusVars, pipeVars, calls, drainLog, dStarted, dReturned>>

IngestMergeNew(w) ==
  /\ pc[w] = "MergeNew"
  /\ newSignal' = Merge(newSignal, local[w].diff)
  /\ local' = [local EXCEPT ![w].lin = Len(drainLog)]
  /\ Goto(w, "return")
  /\ UNCHANGED <<maxSignal, histVars, corpusVars, pipeVars, mu, calls, drainLog, dStarted, dReturned>>

IngestReturn(w) ==
  /\ pc[w] = "return"
  /\ mu' = Free
  /\ calls' = Append(calls, [delta |-> DOMAIN local[w].diff,
                             prio |-> local[w].prio,
                             lin |-> local[w].lin,
                             startDone |-> local[w].startDone,
                             retStarted |-> dStarted])
  /\ local' = [local EXCEPT ![w] = NoLocal]
  /\ Goto(w, "idle")
  /\ UNCHANGED <<maxSignal, newSignal, histVars, corpusVars, pipeVars, drainLog, dStarted, dReturned>>

DrainCall ==
  /\ pc[Drainer] = "idle"
  /\ dStarted < MaxDrains
  /\ dStarted' = dStarted + 1
  /\ Goto(Drainer, "Lock")
  /\ UNCHANGED <<maxSignal, newSignal, histVars, corpusVars, pipeVars, mu, local, calls, drainLog, dReturned>>

DrainLock ==
  /\ pc[Drainer] = "Lock"
  /\ CanLock(mu)
  /\ mu' = {Drainer}
  /\ local' = [local EXCEPT ![Drainer].diff = newSignal]
  /\ Goto(Drainer, "nil")
  /\ UNCHANGED <<maxSignal, newSignal, histVars, corpusVars, pipeVars, calls, drainLog, dStarted, dReturned>>

DrainNil ==
  /\ pc[Drainer] = "nil"
  /\ newSignal' = EmptySignal
  /\ drainLog' = Append(drainLog, local[Drainer].diff)
  /\ Goto(Drainer, "return")
  /\ UNCHANGED <<maxSignal, histVars, corpusVars, pipeVars, mu, local, calls, dStarted, dReturned>>

DrainReturn ==
  /\ pc[Drainer] = "return"
  /\ mu' = Free
  /\ dReturned' = dReturned + 1
  /\ local' = [local EXCEPT ![Drainer] = NoLocal]
  /\ Goto(Drainer, "idle")
  /\ UNCHANGED <<maxSignal, newSignal, histVars, corpusVars, pipeVars, calls, drainLog, dStarted>>

NextConc ==
  \/ \E w \in Workers, signal \in ConcTraces, prio \in ConcPrios : IngestCall(w, signal, prio)
  \/ \E w \in Workers : IngestLock(w)
  \/ \E w \in Workers : IngestMergeNew(w)
  \/ \E w \in Workers : IngestReturn(w)
  \/ DrainCall
  \/ DrainLock
  \/ DrainNil
  \/ DrainReturn

SpecConc == Init /\ [][NextConc]_vars

\* ------------------------------------------------------------------------
\* Goroutines calling into the ProgramsList concurrently.  A call takes
\* the lock, then reads or writes the fields one statement at a time, then
\* unlocks.  saveProgram and replace take the write lock, ChooseProgram the
\* read lock.
\* ------------------------------------------------------------------------
\* The lists handed to replace: an empty one and one holding a program.
ConcOthers ==
  {EmptyList, saveProgram(EmptyList, "P2", [e \in {IoLo - 1, IoHi + 1, FsLo} |-> 0])}

CanRLock_Always(m) == TRUE

\* sync.RWMutex.RLock returns once no goroutine holds the write lock.
CanRLock(m) == m.w = {}

\* sync.RWMutex.Lock returns once no goroutine holds the lock in either mode.
CanWLock(m) == m.w = {} /\ m.r = {}

ListGoto(g, stmt) == lpc' = [lpc EXCEPT ![g] = stmt]

listFields == <<progs, ioUringProgs, sumPrios, accPrios>>

SaveLock(w, p, signal) ==
  /\ lpc[w] = "idle"
  /\ lcalls < MaxListCalls
  /\ Len(progs) < MaxProgs
  /\ io_uring_flag(signal) => Len(ioUringProgs) < MaxProtected
  /\ CanWLock(lmu)
  /\ lmu' = [lmu EXCEPT !.w = {w}]
  /\ lloc' = [lloc EXCEPT ![w] = [NoListLocal EXCEPT !.p = p, !.signal = signal]]
  /\ lcalls' = lcalls + 1
  /\ ListGoto(w, "sumPrios")
  /\ UNCHANGED <<pipeVars, coverVars, concVars, snapVars, listFields, plast>>

SaveSumPrios(w) ==
  /\ lpc[w] = "sumPrios"
  /\ sumPrios' = sumPrios + progPrio(lloc[w].signal)
  /\ ListGoto(w, "accPrios")
  /\ UNCHANGED <<pipeVars, coverVars, concVars, snapVars, progs, ioUringProgs, accPrios, plast, lmu, lloc, lcalls>>

SaveAccPrios(w) ==
  /\ lpc[w] = "accPrios"
  /\ accPrios' = Append(accPrios, sumPrios)
  /\ ListGoto(w, "progs")
  /\ UNCHANGED <<pipeVars, coverVars, concVars, snapVars, progs, ioUringProgs, sumPrios, plast, lmu, lloc, lcalls>>

SaveProgs(w) ==
  /\ lpc[w] = "progs"
  /\ progs' = Append(progs, lloc[w].p)
  /\ ListGoto(w, IF io_uring_flag(lloc[w].signal) THEN "ioUringProgs" ELSE "Unlock")
  /\ UNCHANGED <<pipeVars, coverVars, concVars, snapVars, ioUringProgs, sumPrios, accPrios, plast, lmu, lloc, lcalls>>

SaveIoUringProgs(w) ==
  /\ lpc[w] = "ioUringProgs"
  /\ ioUringProgs' = Append(ioUringProgs, lloc[w].p)
  /\ ListGoto(w, "Unlock")
  /\ UNCHANGED <<pipeVars, coverVars, concVars, snapVars, progs, sumPrios, accPrios, plast, lmu, lloc, lcalls>>

ReplaceLock(w, other) ==
  /\ lpc[w] = "idle"
  /\ lcalls < MaxListCalls
  /\ CanWLock(lmu)
  /\ lmu' = [lmu EXCEPT !.w = {w}]
  /\ lloc' = [lloc EXCEPT ![w] = [NoListLocal EXCEPT !.other = other]]
  /\ lcalls' = lcalls + 1
  /\ ListGoto(w, "other.sumPrios")
  /\ UNCHANGED <<pipeVars, coverVars, concVars, snapVars, listFields, plast>>

ReplaceSumPrios(w) ==
  /\ lpc[w] = "other.sumPrios"
  /\ sumPrios' = lloc[w].other.sumPrios
  /\ ListGoto(w, "other.accPrios")
  /\ UNCHANGED <<pipeVars, coverVars, concVars, snapVars, progs, ioUringProgs, accPrios, plast, lmu, lloc, lcalls>>

ReplaceAccPrios(w) ==
  /\ lpc[w] = "other.accPrios"
  /\ accPrios' = lloc[w].other.accPrios
  /\ ListGoto(w, "other.progs")
  /\ UNCHANGED <<pipeVars, coverVars, concVars, snapVars, progs, ioUringProgs, sumPrios, plast, lmu, lloc, lcalls>>

ReplaceProgs(w) ==
  /\ lpc[w] = "other.progs"
  /\ progs' = lloc[w].other.progs
  /\ ListGoto(w, "Unlock")
  /\ UNCHANGED <<pipeVars, coverVars, concVars, snapVars, ioUringProgs, sumPrios, accPrios, plast, lmu, lloc, lcalls>>

\* The deferred pl.mu.Unlock() of saveProgram and replace.
ListUnlock(w) ==
  /\ lpc[w] = "Unlock"
  /\ lmu' = [lmu EXCEPT !.w = {}]
  /\ lloc' = [lloc EXCEPT ![w] = NoListLocal]
  /\ ListGoto(w, "idle")
  /\ UNCHANGED <<pipeVars, coverVars, concVars, snapVars, listFields, plast, lcalls>>

ChooseRLock(w) ==
  /\ lpc[w] = "idle"
  /\ lcalls < MaxListCalls
  /\ CanRLock(lmu)
  /\ lmu' = [lmu EXCEPT !.r = @ \cup {w}]
  /\ lcalls' = lcalls + 1
  /\ ListGoto(w, "len")
  /\ UNCHANGED <<pipeVars, coverVars, concVars, snapVars, listFields, plast, lloc>>

ChooseLen(w) ==
  /\ lpc[w] = "len"
  /\ lloc' = [lloc EXCEPT ![w].len = Len(progs)]
  /\ ListGoto(w, IF Len(progs) = 0 THEN "RUnlock" ELSE "randVal")
  /\ UNCHANGED <<pipeVars, coverVars, concVars, snapVars, listFields, plast, lmu, lcalls>>

ChooseRandVal(w, randVal) ==
  /\ lpc[w] = "randVal"
  /\ lloc' = [lloc EXCEPT ![w].sum = sumPrios, ![w].randVal = randVal]
  /\ ListGoto(w, "Search")
  /\ UNCHANGED <<pipeVars, coverVars, concVars, snapVars, listFields, plast, lmu, lcalls>>

ChooseSearch(w) ==
  /\ lpc[w] = "Search"
  /\ lloc' = [lloc EXCEPT ![w].acc = accPrios,
                          ![w].idx = sortSearch(accPrios, lloc[w].randVal, 0, Len(accPrios))]
  /\ ListGoto(w, "return")
  /\ UNCHANGED <<pipeVars, coverVars, concVars, snapVars, listFields, plast, lmu, lcalls>>

ChooseReturn(w, bias, pick) ==
  /\ lpc[w] = "return"
  /\ lloc' = [lloc EXCEPT ![w].plen = Len(progs),
                          ![w].ret = IF bias < BiasCut /\ Len(ioUringProgs) # 0
                                     THEN At(ioUringProgs, pick)
                                     ELSE At(progs, lloc[w].idx)]
  /\ ListGoto(w, "RUnlock")
  /\ UNCHANGED <<pipeVars, coverVars, concVars, snapVars, listFields, plast, lmu, lcalls>>

\* The deferred pl.mu.RUnlock() of ChooseProgram.
ChooseRUnlock(w) ==
  /\ lpc[w] = "RUnlock"
  /\ lmu' = [lmu EXCEPT !.r = @ \ {w}]
  /\ lloc' = [lloc EXCEPT ![w] = NoListLocal]
  /\ ListGoto(w, "idle")
  /\ UNCHANGED <<pipeVars, coverVars, concVars, snapVars, listFields, plast, lcalls>>

NextListConc ==
  \/ \E w \in Workers, p \in Progs, signal \in ReplaceSignals : SaveLock(w, p, signal)
  \/ \E w \in Workers : SaveSumPrios(w)
  \/ \E w \in Workers : SaveAccPrios(w)
  \/ \E w \in Workers : SaveProgs(w)
  \/ \E w \in Workers : SaveIoUringProgs(w)
  \/ \E w \in Workers, other \in ConcOthers : ReplaceLock(w, other)
  \/ \E w \in Workers : ReplaceSumPrios(w)
  \/ \E w \in Workers : ReplaceAccPrios(w)
  \/ \E w \in Workers : ReplaceProgs(w)
  \/ \E w \in Workers : ListUnlock(w)
  \/ \E w \in Workers : ChooseRLock(w)
  \/ \E w \in Workers : ChooseLen(w)
  \/ \E w \in Workers, randVal \in 0..sumPrios : ChooseRandVal(w, randVal)
  \/ \E w \in Workers : ChooseSearch(w)
  \/ \E w \in Workers, bias \in {BiasCut - 1, BiasCut},
        pick \in (IF ioUringProgs = <<>> THEN {0} ELSE Picks) : ChooseReturn(w, bias, pick)
  \/ \E w \in Workers : ChooseRUnlock(w)

SpecListConc == Init /\ [][NextListConc]_vars

\* ------------------------------------------------------------------------
\* ProgramsList.progs as a Go slice.  A slice is a backing array and a
\* length; its capacity is the length of the array.  Programs returns the
\* slice pl.progs itself, saveProgram appends to it, replace assigns the
\* slice of the other list.
\* ------------------------------------------------------------------------
Cap(h, sl) == IF sl.arr = 0 THEN 0 ELSE Len(h[sl.arr])

\* The elements read through a slice.
Elems(h, sl) == [i \in 1..sl.len |-> h[sl.arr][i]]

append_Overwrite(h, sl, p) ==
  IF sl.len >= 1
  THEN [heap |-> [h EXCEPT ![sl.arr][sl.len] = p], slice |-> sl]
  ELSE [heap |-> Append(h, <<p>>), slice |-> [arr |-> Len(h) + 1, len |-> 1]]

\* append(sl, p): in place when the capacity allows, otherwise into a new
\* array of twice the capacity holding a copy of the elements.
append(h, sl, p) ==
  IF sl.len < Cap(h, sl)
  THEN [heap |-> [h EXCEPT ![sl.arr][sl.len + 1] = p],
        slice |-> [arr |-> sl.arr, len |-> sl.len + 1]]
  ELSE LET newcap == IF Cap(h, sl) = 0 THEN 1 ELSE 2 * Cap(h, sl)
           array == [i \in 1..newcap |->
                       IF i <= sl.len THEN h[sl.arr][i]
                       ELSE IF i = sl.len + 1 THEN p ELSE nil]
       IN [heap |-> Append(h, array), slice |-> [arr |-> Len(h) + 1, len |-> sl.len + 1]]

\* The progs slice of a list built by saveProgram calls on a new list.
RECURSIVE appendAll(_, _, _)
appendAll(h, sl, list) ==
  IF list = <<>> THEN [heap |-> h, slice |-> sl]
  ELSE LET r == append(h, sl, Head(list))
       IN appendAll(r.heap, r.slice, Tail(list))

\* The lists the caller builds for replace: of one program (capacity 1)
\* and of three programs (capacity 4).
SnapOthers ==
  {saveProgram(EmptyList, "P1", EmptySignal),
   saveProgram(saveProgram(saveProgram(EmptyList, "P1", EmptySignal), "P2", EmptySignal),
               "P1", EmptySignal)}

SnapAdmit(p, signal) ==
  LET r == append(heap, progsSlice, p)
  IN /\ nSnapOps < MaxSnapOps
     /\ heap' = r.heap
     /\ progsSlice' = r.slice
     /\ SetList(saveProgram(List, p, signal))
     /\ plast' = [op |-> "saveProgram", p |-> p, signal |-> signal, ret |-> nil, idx |-> -1, path |-> "none"]
     /\ nSnapOps' = nSnapOps + 1
     /\ UNCHANGED <<pipeVars, coverVars, concVars, listVars, snapshot, passed, reused>>

SnapPrograms ==
  /\ nSnapOps < MaxSnapOps
  /\ snapshot' = [taken |-> TRUE, slice |-> progsSlice, elems |-> Elems(heap, progsSlice)]
  /\ plast' = [op |-> "Programs", p |-> nil, signal |-> EmptySignal, ret |-> nil, idx |-> -1, path |-> "none"]
  /\ nSnapOps' = nSnapOps + 1
  /\ UNCHANGED <<pipeVars, coverVars, concVars, listVars, listFields, heap, progsSlice, passed, reused>>

\* replace(other) with a list the caller has just built.
SnapReplaceNew(other) ==
  LET r == appendAll(heap, NilSlice, other.progs)
  IN /\ nSnapOps < MaxSnapOps
     /\ heap' = r.heap
     /\ passed' = Append(passed, [progs |-> r.slice, accPrios |-> other.accPrios, sumPrios |-> other.sumPrios])
     /\ progsSlice' = r.slice
     /\ SetList(replace(List, other))
     /\ plast' = [op |-> "replace", p |-> nil, signal |-> EmptySignal, ret |-> nil, idx |-> -1, path |-> "none"]
     /\ nSnapOps' = nSnapOps + 1
     /\ UNCHANGED <<pipeVars, coverVars, concVars, listVars, snapshot, reused>>

\* replace(other) with a list the caller has passed before.
SnapReplaceAgain(k) ==
  LET other == [progs |-> Elems(heap, passed[k].progs), ioUringProgs |-> <<>>,
                sumPrios |-> passed[k].sumPrios, accPrios |-> passed[k].accPrios]
  IN /\ nSnapOps < MaxSnapOps
     /\ progsSlice' = passed[k].progs
     /\ SetList(replace(List, other))
     /\ plast' = [op |-> "replace", p |-> nil, signal |-> EmptySignal, ret |-> nil, idx |-> -1, path |-> "none"]
     /\ reused' = TRUE
     /\ nSnapOps' = nSnapOps + 1
     /\ UNCHANGED <<pipeVars, coverVars, concVars, listVars, heap, snapshot, passed>>

NextSnapshot ==
  \/ \E p \in Progs : SnapAdmit(p, EmptySignal)
  \/ SnapPrograms
  \/ \E other \in SnapOthers : SnapReplaceNew(other)
  \/ \E k \in DOMAIN passed : SnapReplaceAgain(k)

SpecSnapshot == Init /\ [][NextSnapshot]_vars

\* ------------------------------------------------------------------------
\* syz-declextract: main and its workers
\* ------------------------------------------------------------------------
\* File names, as sequences of characters.
FileNames == {<<"a", ".", "c">>, <<"a", ".", "h">>, <<"c">>}

RECURSIVE SeqsUpTo(_, _)
SeqsUpTo(S, n) ==
  IF n = 0 THEN {<<>>}
  ELSE LET shorter == SeqsUpTo(S, n - 1)
       IN shorter \cup {Append(q, x) : q \in shorter, x \in S}

\* The compilation databases: every sequence of up to MaxCmds entries.
Databases == SeqsUpTo(FileNames, MaxCmds)

\* strings.HasSuffix
HasSuffix(str, suffix) ==
  /\ Len(str) >= Len(suffix)
  /\ SubSeq(str, Len(str) - Len(suffix) + 1, Len(str)) = suffix

\* Where a worker goes after the output it sends for a file that does not
\* end in ".c": it returns.
workerNonC(w) == "exited"

otherVars == <<coverVars, corpusVars, concVars>>

\* main, lines 45-59: reads the database, makes the two channels with
\* capacity len(cmds) and starts runtime.NumCPU() workers.
MainStart(db, n) ==
  /\ mpc = "main"
  /\ cmds' = db
  /\ ncpu' = n
  /\ wpc' = [w \in CPUs |-> IF w <= n THEN "range" ELSE "none"]
  /\ mpc' = "send"
  /\ UNCHANGED <<otherVars, files, outputs, closed, sent, received, wfile>>

\* main, lines 61-63: the channel holds len(cmds) names, the send never
\* blocks.
MainSend ==
  /\ mpc = "send"
  /\ IF sent < Len(cmds)
     THEN /\ Len(files) < Len(cmds)
          /\ files' = Append(files, cmds[sent + 1])
          /\ sent' = sent + 1
          /\ mpc' = mpc
     ELSE /\ mpc' = "receive"
          /\ UNCHANGED <<files, sent>>
  /\ UNCHANGED <<otherVars, cmds, ncpu, outputs, closed, received, wpc, wfile>>

\* main, lines 69-80: one receive per entry of the database; the receive
\* waits for an output.
MainReceive ==
  /\ mpc = "receive"
  /\ IF received < Len(cmds)
     THEN /\ outputs > 0
          /\ outputs' = outputs - 1
          /\ received' = received + 1
          /\ mpc' = mpc
     ELSE /\ mpc' = "close"
          /\ UNCHANGED <<outputs, received>>
  /\ UNCHANGED <<otherVars, cmds, ncpu, files, closed, sent, wpc, wfile>>

\* main, line 81
MainClose ==
  /\ mpc = "close"
  /\ closed' = TRUE
  /\ mpc' = "writeOutput"
  /\ UNCHANGED <<otherVars, cmds, ncpu, files, outputs, sent, received, wpc, wfile>>

\* main, line 82
MainWriteOutput ==
  /\ mpc = "writeOutput"
  /\ mpc' = "done"
  /\ UNCHANGED <<otherVars, cmds, ncpu, files, outputs, closed, sent, received, wpc, wfile>>

\* worker, lines 100-104: takes the next name; the loop ends when the
\* channel is closed and empty.  For a name that does not end in ".c" it
\* sends an empty output and returns.
WorkerRange(w) ==
  /\ wpc[w] = "range"
  /\ IF files # <<>>
     THEN LET file == Head(files)
          IN /\ files' = Tail(files)
             /\ IF ~HasSuffix(file, <<".", "c">>)
                THEN /\ outputs < Len(cmds)
                     /\ outputs' = outputs + 1
                     /\ wpc' = [wpc EXCEPT ![w] = workerNonC(w)]
                     /\ UNCHANGED wfile
                ELSE /\ wpc' = [wpc EXCEPT ![w] = "exec"]
                     /\ wfile' = [wfile EXCEPT ![w] = file]
                     /\ UNCHANGED outputs
     ELSE /\ closed
          /\ wpc' = [wpc EXCEPT ![w] = "exited"]
          /\ UNCHANGED <<files, outputs, wfile>>
  /\ UNCHANGED <<otherVars, cmds, ncpu, closed, sent, received, mpc>>

\* worker, lines 106-117: the extractor returns and the worker sends its
\* output.
WorkerExec(w) ==
  /\ wpc[w] = "exec"
  /\ outputs < Len(cmds)
  /\ outputs' = outputs + 1
  /\ wfile' = [wfile EXCEPT ![w] = <<>>]
  /\ wpc' = [wpc EXCEPT ![w] = "range"]
  /\ UNCHANGED <<otherVars, cmds, ncpu, files, closed, sent, received, mpc>>

Main ==
  \/ \E db \in Databases, n \in CPUs : MainStart(db, n)
  \/ MainSend
  \/ MainReceive
  \/ MainClose
  \/ MainWriteOutput

Worker(w) == WorkerRange(w) \/ WorkerExec(w)

NextPipeline ==
  \/ \E db \in Databases, n \in CPUs : MainStart(db, n)
  \/ MainSend
  \/ MainReceive
  \/ MainClose
  \/ MainWriteOutput
  \/ \E w \in CPUs : WorkerRange(w)
  \/ \E w \in CPUs : WorkerExec(w)

SpecPipeline == Init /\ [][NextPipeline]_vars

\* Every goroutine that can take a step eventually takes one.
FairPipeline ==
  SpecPipeline /\ WF_vars(Main) /\ \A w \in CPUs : WF_vars(Worker(w))

\* ------------------------------------------------------------------------
\* Properties of the tracker
\* ------------------------------------------------------------------------
Pend(e) == IF e \in DOMAIN newSignal THEN 1 ELSE 0

\* C1: a GrabSignalDelta returns exactly the merge of the deltas that the
\* addRawMaxSignal calls returned since the previous GrabSignalDelta,
\* whatever AddMaxSignal and CopyMaxSignal calls came in between.
C1_DeltaPartition ==
  [][last'.op = "GrabSignalDelta" => last'.ret = since]_vars

C1_Witness ==
  /\ last.op = "GrabSignalDelta"
  /\ Cardinality(DOMAIN last.ret) = 2
  /\ \E e \in DOMAIN last.ret : reports[e] = 2
  /\ merged # {}

\* The delta of call c is contained in the result of drain k.
Landed(c, k) == c.delta \subseteq DOMAIN drainLog[k]
Drains == 1..Len(drainLog)

\* C2 as stated: a non-empty delta is contained in exactly one drain
\* result; a call that returned before drain k started is contained in
\* drain k or an earlier one, a call that overlaps drain k is contained in
\* drain k or drain k+1 once that one has run, and no delta is contained in
\* two drain results.
C2_ExactlyOneDrain ==
  \A i \in 1..Len(calls) :
    LET c == calls[i]
    IN c.delta # {} =>
         /\ \A k \in Drains : k > c.retStarted => \E k2 \in 1..k : Landed(c, k2)
         /\ \A k \in Drains : k > c.startDone /\ k <= c.retStarted /\ k < Len(drainLog) =>
              Landed(c, k) \/ Landed(c, k + 1)
         /\ Cardinality({k \in Drains : Landed(c, k)}) <= 1

\* C2 amended: a non-empty delta is contained in the result of the first
\* drain that takes the lock after the call merged it.  That drain is not
\* one that returned before the call started and is at the latest the
\* first drain started after the call returned; a call waiting for the
\* lock can overlap several drains and land after all of them.  An event
\* of the delta is in another drain result only when another call reported
\* it before that drain, at a lower priority for an earlier drain and at a
\* higher one for a later drain; a drain returns nothing that no call
\* reported since the drain before it.
C2_FirstDrainAfter ==
  /\ \A i \in 1..Len(calls) :
       LET c == calls[i]
       IN c.delta # {} =>
            /\ c.startDone <= c.lin /\ c.lin <= c.retStarted
            /\ c.lin < Len(drainLog) => Landed(c, c.lin + 1)
            /\ \A k \in Drains \ {c.lin + 1} : \A e \in c.delta \cap DOMAIN drainLog[k] :
                 \E i2 \in 1..Len(calls) :
                   LET c2 == calls[i2]
                   IN /\ c2.lin = k - 1
                      /\ e \in c2.delta
                      /\ k > c.lin + 1 => c2.prio > c.prio
                      /\ k < c.lin + 1 => c2.prio < c.prio
  /\ \A k \in Drains : \A e \in DOMAIN drainLog[k] :
       \E i \in 1..Len(calls) : calls[i].lin = k - 1 /\ e \in calls[i].delta

\* A call that waited for the lock while a drain ran, and whose delta the
\* next drain returned.
C2_Witness ==
  \E i \in 1..Len(calls) :
    LET c == calls[i]
    IN /\ c.delta # {}
       /\ c.startDone < c.lin
       /\ c.lin < c.retStarted
       /\ c.lin < Len(drainLog)
       /\ Landed(c, c.lin + 1)

\* C3 as stated: every reported event is delivered by exactly one
\* GrabSignalDelta over the lifetime of the tracker (it is either still
\* pending or was delivered once, never twice).
C3_ExactlyOnce ==
  \A e \in CoverEvents : reports[e] > 0 => deliveries[e] + Pend(e) = 1

\* C3 amended: an event is pending exactly when it was reported since the
\* previous drain; it is delivered at most as often as it was reported and
\* at least once when it was reported and is no longer pending; it is
\* reported again only at a strictly higher priority, so with one priority
\* tag it is delivered exactly once.
C3_OncePerReport ==
  \A e \in CoverEvents :
    /\ e \in DOMAIN newSignal <=> e \in DOMAIN since
    /\ deliveries[e] + Pend(e) <= reports[e]
    /\ reports[e] > 0 =>
         /\ deliveries[e] + Pend(e) >= 1
         /\ e \in DOMAIN maxSignal
         /\ reports[e] <= maxSignal[e] + 1

C3_Witness ==
  \E e \in CoverEvents : deliveries[e] = 2 /\ reports[e] = 2

\* C4 as stated: of two addRawMaxSignal calls in a row with the same trace
\* and priority, the first returns a non-empty delta and the second an
\* empty one.
C4_FirstNonEmptySecondEmpty ==
  twice.same => ~Empty(twice.first) /\ Empty(last.ret)

\* C4 amended: the second of the two calls returns an empty delta; the
\* first returns only in-scope events of the trace, at the priority of the
\* call, and so an empty delta when the trace has no in-scope event.
C4_SecondEmpty ==
  twice.same =>
    /\ Empty(last.ret)
    /\ DOMAIN twice.first \subseteq {last.signal[i] : i \in DOMAIN last.signal} \cap InScope
    /\ \A e \in DOMAIN twice.first : twice.first[e] = last.prio /\ maxSignal[e] = last.prio

C4_Witness ==
  twice.same /\ ~Empty(twice.first) /\ Len(last.signal) = 2

\* C5: no step removes an event from maxSignal or lowers its priority.
C5_MonotoneKnown ==
  [][\A e \in DOMAIN maxSignal :
       e \in DOMAIN maxSignal' /\ maxSignal'[e] >= maxSignal[e]]_vars

C5_Witness ==
  /\ last.op = "AddMaxSignal"
  /\ \E e \in DOMAIN last.sign : last.sign[e] < maxSignal[e]
  /\ DOMAIN maxSignal # DOMAIN last.sign

\* C6: newSignal is a subset of maxSignal in every reachable state.
C6_PendingInKnown ==
  \A e \in DOMAIN newSignal : e \in DOMAIN maxSignal /\ newSignal[e] <= maxSignal[e]

C6_Witness ==
  /\ ~Empty(newSignal)
  /\ last.op = "AddMaxSignal"
  /\ \E e \in DOMAIN newSignal : newSignal[e] < maxSignal[e]

Weight(i) == accPrios[i] - (IF i = 1 THEN 0 ELSE accPrios[i - 1])

\* The draws of randVal for which the weighted path selects position i.
Selecting(i) ==
  {randVal \in 0..sumPrios : ChooseProgram(List, randVal, BiasCut, 0).idx = i - 1}

\* C8: len(accPrios) = len(progs), accPrios is strictly increasing from a
\* first element of at least 1, and its last element is sumPrios.
C8_CumulativeIndex ==
  /\ Len(accPrios) = Len(progs)
  /\ \A i \in 1..Len(accPrios) : Weight(i) >= 1
  /\ \A i, j \in 1..Len(accPrios) : i < j => accPrios[i] < accPrios[j]
  /\ sumPrios = (IF accPrios = <<>> THEN 0 ELSE accPrios[Len(accPrios)])

C8_Witness ==
  /\ plast.op = "saveProgram"
  /\ Len(progs) = 2
  /\ Empty(plast.signal)
  /\ accPrios[1] > 1

\* C9: saveProgram(P, S) appends P to progs, adds max(1, |S|) to sumPrios,
\* appends the new sumPrios to accPrios, and appends P to ioUringProgs
\* exactly when S holds an event of the io_uring range; the weight is the
\* same whether or not S holds such an event.
C9_Admit ==
  [][plast'.op = "saveProgram" =>
       LET P == plast'.p
           S == DOMAIN plast'.signal
           w == IF Cardinality(S) > 1 THEN Cardinality(S) ELSE 1
       IN /\ progs' = Append(progs, P)
          /\ sumPrios' = sumPrios + w
          /\ accPrios' = Append(accPrios, sumPrios + w)
          /\ ioUringProgs' = (IF S \cap (IoLo..IoHi) # {} THEN Append(ioUringProgs, P)
                              ELSE ioUringProgs)]_vars

C9_Witness ==
  /\ plast.op = "saveProgram"
  /\ Len(progs) = 2
  /\ Len(ioUringProgs) = 1
  /\ ioUringProgs[1] = progs[2]
  /\ Weight(2) = 2

\* C10: on the weighted path the draws of randVal that select a program are
\* in proportion to its weight, a share of w[i]/sumPrios of the sumPrios+1
\* equally likely draws; with weights [1, 4] and an empty ioUringProgs the
\* second program is selected by 4 times as many draws as the first.
C10_Unbiased ==
  /\ \A i \in 1..Len(progs) :
       Cardinality(Selecting(i)) * sumPrios = Weight(i) * (sumPrios + 1)
  /\ accPrios = <<1, 5>> /\ ioUringProgs = <<>> =>
       Cardinality(Selecting(2)) = 4 * Cardinality(Selecting(1))

\* The values of the bias draw for which a call takes the protected path.
ProtectedDraws(randVal, pick) ==
  {bias \in 0..(BiasRange - 1) : ChooseProgram(List, randVal, bias, pick).path = "protected"}

\* C11: with progs and ioUringProgs both non-empty, ChooseProgram takes the
\* protected path for exactly half of the BiasRange values of the bias
\* draw, whatever randVal, the length of progs and the weights are, and on
\* that path returns entry pick of ioUringProgs: every entry is returned by
\* exactly one of the len(ioUringProgs) values of the pick, so a program is
\* returned by as many picks as it has entries, one when the entries are
\* distinct.  With ioUringProgs empty every draw returns progs[idx].  The
\* draws are counted in the states a saveProgram or replace call leaves
\* (ChooseProgram writes no field); the call a ChooseProgram state records
\* is one of those counted.
C11_ProtectedFloor ==
  /\ plast.op # "ChooseProgram" =>
       /\ progs # <<>> /\ ioUringProgs # <<>> =>
            /\ \A randVal \in 0..sumPrios, pick \in Picks :
                 /\ 2 * Cardinality(ProtectedDraws(randVal, pick)) = BiasRange
                 /\ \A bias \in {0, BiasCut - 1} :
                      ChooseProgram(List, randVal, bias, pick).ret = ioUringProgs[pick + 1]
            /\ \A p \in {ioUringProgs[k] : k \in DOMAIN ioUringProgs} :
                 Cardinality({pick \in Picks : ChooseProgram(List, 0, 0, pick).ret = p})
                   = Cardinality({k \in DOMAIN ioUringProgs : ioUringProgs[k] = p})
       /\ progs # <<>> /\ ioUringProgs = <<>> =>
            \A randVal \in 0..sumPrios, bias \in 0..(BiasRange - 1) :
              LET r == ChooseProgram(List, randVal, bias, 0)
              IN r.path = "weighted" /\ r.ret = progs[r.idx + 1]
  /\ plast.op = "ChooseProgram" =>
       /\ plast.path = "protected" => \E k \in DOMAIN ioUringProgs : plast.ret = ioUringProgs[k]
       /\ plast.path = "weighted" => plast.ret = progs[plast.idx + 1]
       /\ ioUringProgs = <<>> /\ progs # <<>> => plast.path = "weighted"

C11_Witness ==
  /\ plast.op = "ChooseProgram"
  /\ plast.path = "protected"
  /\ Len(progs) = 1
  /\ Len(ioUringProgs) = 2
  /\ ioUringProgs[1] # ioUringProgs[2]
  /\ plast.ret = ioUringProgs[2]
  /\ plast.ret # progs[1]

\* C12: for every value of the three draws, ChooseProgram returns nil
\* exactly when progs is empty; otherwise the index the binary search finds
\* satisfies 0 <= idx < len(progs) and no slice access is out of range.
C12_ChooseNeverFails ==
  /\ \A randVal \in 0..sumPrios, bias \in BiasDraws,
        pick \in (IF ioUringProgs = <<>> THEN {0} ELSE Picks) :
       LET r == ChooseProgram(List, randVal, bias, pick)
       IN /\ r.ret = nil <=> progs = <<>>
          /\ r.ret # panic
          /\ progs # <<>> => r.idx >= 0 /\ r.idx < Len(progs)
  /\ plast.op = "ChooseProgram" =>
       /\ plast.ret # panic
       /\ plast.ret = nil <=> progs = <<>>

\* A call that drew the largest randVal and returned the last program.
C12_Witness ==
  /\ plast.op = "ChooseProgram"
  /\ plast.path = "weighted"
  /\ Len(progs) = MaxProgs
  /\ plast.idx = Len(progs) - 1
  /\ plast.ret = progs[Len(progs)]
  /\ Weight(Len(progs)) = 1

\* The list after saveProgram(P1, S) on a new list, S of three events
\* outside the io_uring range.
ScenarioStart ==
  progs = <<"P1">> /\ accPrios = <<3>> /\ sumPrios = 3 /\ ioUringProgs = <<>>

\* The next call is saveProgram(P2, S) with S of n events.
ScenarioAdmit(n) ==
  /\ ScenarioStart
  /\ plast'.op = "saveProgram"
  /\ plast'.p = "P2"
  /\ Cardinality(DOMAIN plast'.signal) = n

\* The draws of randVal for which a call whose bias draw is bias returns P2
\* (the pick is 0: ioUringProgs has at most one entry in the scenario).
P2Returns(bias) ==
  {randVal \in 0..sumPrios : ChooseProgram(List, randVal, bias, 0).ret = "P2"}

\* C13 as stated: after saveProgram(P1, S1) with |S1| = 3 outside the range
\* and saveProgram(P2, S2) with |S2| = 0, accPrios is [3, 4], P2 is in
\* ioUringProgs and ChooseProgram returns P2 for every draw on the half of
\* the bias draws below the cut.
C13_Scenario ==
  [][ScenarioAdmit(0) =>
       /\ accPrios' = <<3, 4>>
       /\ ioUringProgs' = <<"P2">>
       /\ \A bias \in 0..(BiasCut - 1) : P2Returns(bias)' = 0..4]_vars

\* C13 amended: the first call gives the list [P1], accPrios [3], nothing
\* protected.  A signal with no event holds no event of the range: after
\* saveProgram(P2, {}) accPrios is [3, 4], ioUringProgs stays empty and P2
\* is returned only by randVal = 4, one draw of the five.  With a signal of
\* one event in the range accPrios is [3, 4] as well, ioUringProgs is [P2],
\* and P2 is returned by every draw when the bias draw is below the cut
\* (50 of 100) and by randVal = 4 alone otherwise.
C13_ScenarioInRegion ==
  /\ [][/\ List = EmptyList
        /\ plast'.op = "saveProgram"
        /\ plast'.p = "P1"
        /\ Cardinality(DOMAIN plast'.signal) = 3
        /\ ~io_uring_flag(plast'.signal)
        => ScenarioStart']_vars
  /\ [][ScenarioAdmit(0) =>
          /\ accPrios' = <<3, 4>>
          /\ ioUringProgs' = <<>>
          /\ \A bias \in 0..(BiasRange - 1) : P2Returns(bias)' = {4}]_vars
  /\ [][ScenarioAdmit(1) /\ io_uring_flag(plast'.signal) =>
          /\ accPrios' = <<3, 4>>
          /\ ioUringProgs' = <<"P2">>
          /\ \A bias \in 0..(BiasCut - 1) : P2Returns(bias)' = 0..4
          /\ \A bias \in BiasCut..(BiasRange - 1) : P2Returns(bias)' = {4}]_vars

C13_Witness ==
  /\ plast.op = "saveProgram"
  /\ plast.p = "P2"
  /\ io_uring_flag(plast.signal)
  /\ progs = <<"P1", "P2">>
  /\ accPrios = <<3, 4>>
  /\ ioUringProgs = <<"P2">>

\* The programs of the main list.
MainProgs == {progs[i] : i \in DOMAIN progs}

\* C14: in every state reached by saveProgram and replace calls, every
\* entry of ioUringProgs is a program of progs, and every program a
\* ChooseProgram call returns is a program of progs.
C14_ProtectedInMain ==
  /\ \A k \in DOMAIN ioUringProgs : ioUringProgs[k] \in MainProgs
  /\ \A randVal \in 0..sumPrios, bias \in BiasDraws,
        pick \in (IF ioUringProgs = <<>> THEN {0} ELSE Picks) :
       progs # <<>> => ChooseProgram(List, randVal, bias, pick).ret \in MainProgs
  /\ plast.op = "ChooseProgram" /\ plast.ret # nil => plast.ret \in MainProgs

\* The goroutines inside ChooseProgram that have read len(progs), sumPrios,
\* accPrios, progs.
ReadLen == {w \in Workers : lpc[w] \in {"randVal", "Search", "return"} \/ (lpc[w] = "RUnlock" /\ lloc[w].len > 0)}
ReadSum == {w \in ReadLen : lpc[w] # "randVal"}
ReadAcc == {w \in ReadSum : lpc[w] # "Search"}
ReadProgs == {w \in ReadAcc : lpc[w] # "return"}

\* C15: what a ChooseProgram call has read belongs to one state of the
\* list left by completed saveProgram and replace calls: the accPrios it
\* searched has the length it read from progs and ends with the sumPrios
\* it drew below, the index it found and the slice it indexed fit, and the
\* fields still hold the values it read; no write happens while a
\* goroutine holds the read lock.
C15_NoTornReads ==
  /\ \A w \in ReadLen : lloc[w].len = Len(progs)
  /\ \A w \in ReadSum : lloc[w].sum = sumPrios /\ lloc[w].randVal <= sumPrios
  /\ \A w \in ReadAcc :
       /\ lloc[w].acc = accPrios
       /\ Len(lloc[w].acc) = lloc[w].len
       /\ lloc[w].acc[Len(lloc[w].acc)] = lloc[w].sum
       /\ lloc[w].idx >= 0 /\ lloc[w].idx < lloc[w].len
  /\ \A w \in ReadProgs : lloc[w].plen = lloc[w].len /\ lloc[w].ret # panic
  /\ lmu.r # {} =>
       /\ lmu.w = {}
       /\ Len(accPrios) = Len(progs)
       /\ sumPrios = (IF accPrios = <<>> THEN 0 ELSE accPrios[Len(accPrios)])

\* A call that has read all four fields of a list of two programs and
\* found the second one.
C15_Witness ==
  /\ ReadProgs # {}
  /\ lcalls = MaxListCalls
  /\ Len(progs) = 2
  /\ \E w \in ReadProgs : lloc[w].idx = 1 /\ lloc[w].ret = progs[2]

\* C16 as stated: the slice a Programs call returned keeps its length and
\* its elements whatever saveProgram and replace calls follow.
C16_SnapshotStable ==
  snapshot.taken =>
    /\ Len(Elems(heap, snapshot.slice)) = Len(snapshot.elems)
    /\ Elems(heap, snapshot.slice) = snapshot.elems

\* C16 amended: pl.progs is the slice the model of the list holds; the
\* slice a Programs call returned keeps its length, and keeps its elements
\* as long as no list is passed to replace a second time.  One of its
\* elements changes only in a saveProgram call that appends in place to a
\* shorter slice of the same backing array, which a replace with a list
\* passed before has put in pl.progs.
C16_SnapshotStableUnlessReused ==
  /\ [](/\ Elems(heap, progsSlice) = progs
        /\ snapshot.taken =>
             /\ Len(Elems(heap, snapshot.slice)) = Len(snapshot.elems)
             /\ ~reused => Elems(heap, snapshot.slice) = snapshot.elems)
  /\ [][snapshot.taken /\ snapshot'.taken
          /\ Elems(heap', snapshot'.slice) # Elems(heap, snapshot.slice) =>
            \/ plast'.op = "Programs"
            \/ /\ plast'.op = "saveProgram"
               /\ reused
               /\ progsSlice.arr = snapshot.slice.arr
               /\ progsSlice.len < snapshot.slice.len]_vars

\* After the Programs call a replace and a saveProgram that appends in
\* place to the array of the returned slice were made.
C16_Witness ==
  /\ snapshot.taken
  /\ ~reused
  /\ plast.op = "saveProgram"
  /\ snapshot.slice.len = 3
  /\ progsSlice.arr = snapshot.slice.arr
  /\ progsSlice.len = 4
  /\ Len(passed) = 2

\* The events of a trace.
TraceEvents(signal) == {signal[i] : i \in DOMAIN signal}

\* Sample addresses at both ends of the two ranges of the other revision,
\* and traces of one and of two of them.
TwoRangeEvents == {FsALo - 1, FsALo, FsAHi, FsAHi + 1, FsBLo - 1, FsBLo, FsBHi, FsBHi + 1}
TwoRangeTraces ==
  {<<>>} \cup {<<a>> : a \in TwoRangeEvents} \cup {<<FsBHi, b>> : b \in TwoRangeEvents}

\* C17: addRawMaxSignal(signal, prio) returns exactly the events of the
\* trace that lie in the range of filterFsSignal and are absent from
\* maxSignal or recorded in it with a priority below prio, each at prio;
\* an event outside the range is not returned and its entries in maxSignal
\* and newSignal are as before the call.  The filter of the other revision
\* keeps exactly the events of its two ranges, in order.
C17_DeltaExact ==
  /\ [][last'.op = "addRawMaxSignal" =>
          LET trace == TraceEvents(last'.signal)
              scoped == {e \in trace : e >= FsLo /\ e <= FsHi}
              fresh == {e \in scoped : e \notin DOMAIN maxSignal \/ maxSignal[e] < last'.prio}
          IN /\ DOMAIN last'.ret = fresh
             /\ \A e \in fresh : last'.ret[e] = last'.prio
             /\ \A e \in CoverEvents \ scoped :
                  /\ e \notin DOMAIN last'.ret
                  /\ e \in DOMAIN maxSignal' <=> e \in DOMAIN maxSignal
                  /\ e \in DOMAIN maxSignal => maxSignal'[e] = maxSignal[e]
                  /\ e \in DOMAIN newSignal' <=> e \in DOMAIN newSignal
                  /\ e \in DOMAIN newSignal => newSignal'[e] = newSignal[e]]_vars
  /\ [][last'.op = "addRawMaxSignal" => \A signal \in TwoRangeTraces :
          LET kept == filterFsSignalTwoRanges(signal)
          IN /\ TraceEvents(kept) =
                  {e \in TraceEvents(signal) : e \in FsALo..FsAHi \/ e \in FsBLo..FsBHi}
             /\ Len(signal) = 2 /\ Len(kept) = 2 => kept = signal]_vars

\* A call with an event outside the range that is known, and an in-scope
\* event, given twice, that was reported before at a lower priority.
C17_Witness ==
  /\ last.op = "addRawMaxSignal"
  /\ last.signal = <<FsLo - 1, FsHi, FsHi>>
  /\ last.prio = MaxPrio
  /\ DOMAIN last.ret = {FsHi}
  /\ reports[FsHi] = 2
  /\ FsLo - 1 \in DOMAIN maxSignal
  /\ FsLo \in DOMAIN maxSignal

\* C18: when no event of the trace is in the range of filterFsSignal and
\* absent from maxSignal or recorded in it below prio, addRawMaxSignal
\* returns the empty signal and leaves maxSignal and newSignal as they
\* were.
C18_EmptyDeltaNoEffect ==
  [][/\ last'.op = "addRawMaxSignal"
     /\ \A e \in TraceEvents(last'.signal) :
          e >= FsLo /\ e <= FsHi => e \in DOMAIN maxSignal /\ maxSignal[e] >= last'.prio
     => /\ Empty(last'.ret)
        /\ maxSignal' = maxSignal
        /\ newSignal' = newSignal]_vars

\* A call whose in-scope events are all known at a higher priority, made
\* while another event is pending.
C18_Witness ==
  /\ last.op = "addRawMaxSignal"
  /\ last.signal = <<FsLo - 1, FsHi, FsHi>>
  /\ last.prio = 0
  /\ Empty(last.ret)
  /\ maxSignal[FsHi] = MaxPrio
  /\ ~Empty(newSignal)
  /\ FsLo - 1 \notin DOMAIN maxSignal

\* C19: the program ChooseProgram returns is a function of the list and of
\* the values drawn from its argument r, of which randVal is the only one:
\* two calls on the same list with the same randVal return the same
\* program, whatever the values of rand.Intn(100) and
\* rand.Intn(len(ioUringProgs)), which are drawn from the global source.
C19_DeterministicInSource ==
  \A randVal \in 0..sumPrios :
    \A bias1, bias2 \in BiasDraws :
      \A pick1, pick2 \in (IF ioUringProgs = <<>> THEN {0} ELSE Picks) :
        ChooseProgram(List, randVal, bias1, pick1).ret
          = ChooseProgram(List, randVal, bias2, pick2).ret

\* C20: for every database and every positive number of workers, under
\* fair scheduling main eventually has received one output per entry,
\* closed the files channel and written the output file.
C20_PipelineTerminates ==
  <>(mpc = "done" /\ received = Len(cmds) /\ closed)

====
